---- MODULE Spec2Model ----
(***************************************************************************)
(* State-machine model of src/main.c: a sequential pipeline that opens an  *)
(* input container, maps its streams, re-encodes the video streams and     *)
(* copies the audio streams into an mp4 container.  The libav* calls are   *)
(* the environment: each call returns one of the statuses its interface    *)
(* allows, chosen nondeterministically.                                    *)
(***************************************************************************)
EXTENDS Integers, Sequences, FiniteSets, TLC

\* ---------------------------------------------------------------- bounds
MaxStreams == 2
MaxUnits == 2

\* ---------------------------------------------------- program constants
DROPPED == -1
AVSTREAM_INIT_IN_WRITE_HEADER == 0
AVERROR_EAGAIN == -11
AVERROR_EOF == -541478725
\* the statuses the code does not single out: one representative
FatalCodes == {-22}

MediaTypes == {"video", "audio", "other"}
\* the time bases the muxer may give the output streams
TimeBases == {<<1, 2>>, <<1, 3>>}
\* the time base of input stream j: it differs from stream to stream
InTimeBase(j) == <<1, j + 2>>

\* ------------------------------------------------------------- helpers
\* av_rescale_q with AV_ROUND_NEAR_INF, for a >= 0: a * bq / cq rounded to
\* the nearest integer, halves away from zero
av_rescale_q(a, bq, cq) ==
    LET num == a * bq[1] * cq[2]
        den == bq[2] * cq[1]
    IN  (2 * num + den) \div (2 * den)

BlankPacket == [held |-> FALSE, stream_index |-> 0, data |-> 0, pts |-> 0]
BlankFrame == [held |-> FALSE, data |-> 0, pts |-> 0]

UnrefSkipped(pkt) == pkt

\* av_packet_unref: releases what the packet holds and blanks it
av_packet_unref(pkt) == BlankPacket
\* av_frame_unref, likewise
av_frame_unref(frm) == BlankFrame
\* 1 when a step released the unit or frame the buffer held, else 0
ReleasedBy(before, after) == IF before.held /\ ~after.held THEN 1 ELSE 0

\* print_error / printf: one diagnostic line; errnum is the status handed
\* to av_strerror, cause the status of the call that failed
print_error(d, description, errnum, cause) ==
    Append(d, [description |-> description, errnum |-> errnum, cause |-> cause])

WritePacketNoRescale(pkt, in_stream, out_tb, out_stream_index) ==
    [stream_index |-> out_stream_index, data |-> pkt.data, pts |-> pkt.pts]

\* write_packet: the unit as it is handed to av_interleaved_write_frame,
\* tagged with the output stream index and rebased to the output time base
write_packet(pkt, in_stream, out_tb, out_stream_index) ==
    [stream_index |-> out_stream_index,
     data |-> pkt.data,
     pts |-> av_rescale_q(pkt.pts, in_stream.time_base, out_tb)]

\* the value of `++stream_count` in create_streams
PostIncrement(count) == count
PreIncrement(count) == count + 1

\* avcodec_free_context(&table[i]) for every i: frees what the table points
\* to and nulls the entry; a NULL entry is left alone
FreedBy(table, side, counts) ==
    [c \in DOMAIN counts |->
        IF c[1] = side /\ c[2] \in DOMAIN table /\ table[c[2]]
        THEN counts[c] + 1 ELSE counts[c]]
NulledTable(table) == [j \in DOMAIN table |-> FALSE]

\* the loop of create_streams_and_transcode that frees both tables' contexts
TeardownFrees(in_table, out_table, counts) ==
    FreedBy(out_table, "out", FreedBy(in_table, "in", counts))

VARIABLES
    pc,                   \* position in the program
    streams,              \* infc->streams: input stream descriptors
    nb_read,              \* units av_read_frame has delivered
    out_stream_indices,   \* the stream index map (entries written so far)
    in_codec_contexts,    \* decode context table: TRUE = non-NULL
    out_codec_contexts,   \* encode context table: TRUE = non-NULL
    ctx_allocs,           \* <<side, i>> -> times a context was allocated
    ctx_frees,            \* <<side, i>> -> times it was freed
    allocs,               \* resource -> times acquired
    frees,                \* resource -> times released
    i,                    \* create_streams loop index
    stream_count,         \* create_streams local
    nb_out_streams,       \* outfc->nb_streams
    out_time_base,        \* output stream -> time base
    header_count,         \* headers written to the container
    trailer_count,        \* trailers written to the container
    written,              \* units accepted by av_interleaved_write_frame
    packet,               \* the body's shared AVPacket
    frame,                \* the body's shared AVFrame
    cur,                  \* input stream index of the unit in process
    decoder,              \* per input stream: units held inside the decoder
    encoder,              \* per input stream: frames held inside the encoder
    result,               \* return value travelling up the call stack
    exit_code,            \* process exit status, set when pc is "done"
    diag,                 \* diagnostics printed so far
    hist                  \* history of the run (ghost)

vars == <<pc, streams, nb_read, out_stream_indices, in_codec_contexts,
          out_codec_contexts, ctx_allocs, ctx_frees, allocs, frees, i,
          stream_count, nb_out_streams, out_time_base, header_count,
          trailer_count, written, packet, frame, cur, decoder, encoder,
          result, exit_code, diag, hist>>

Resources == {"infc", "outfc", "out_stream_indices", "in_codec_contexts",
              "out_codec_contexts", "pb", "packet", "frame"}

NbStreams == Cardinality(DOMAIN streams)
StreamIds == DOMAIN streams
CtxIds == {"in", "out"} \X StreamIds

EmptyMap == [j \in {} |-> 0]

\* dec_status: status of the last decoder call made for the unit in
\* process, 0 when a new unit is read; pkt_/frm_ counters: units and frames
\* put into and released from the shared packet and frame
InitHist == [fatal |-> 0, read_error |-> FALSE, enc_fail |-> FALSE,
             write_fail |-> "none", read_after_enc_fail |-> FALSE,
             io_after_write_fail |-> FALSE, write_before_header |-> FALSE,
             ctx_use_after_free |-> FALSE, read_log |-> <<>>,
             cs_failed_at |-> -1, mapped |-> FALSE, null_buffers |-> 0,
             sent_to_decoder |-> <<>>, dec_status |-> 0,
             pkt_filled |-> 0, pkt_released |-> 0,
             frm_filled |-> 0, frm_released |-> 0]

Init ==
    /\ pc = "main_alloc_input"
    /\ \E n \in 0..MaxStreams : \E types \in [0..(n - 1) -> MediaTypes] :
          streams = [j \in 0..(n - 1) |->
                        [codec_type |-> types[j], time_base |-> InTimeBase(j)]]
    /\ nb_read = 0
    /\ out_stream_indices = EmptyMap
    /\ in_codec_contexts = EmptyMap
    /\ out_codec_contexts = EmptyMap
    /\ ctx_allocs = [c \in CtxIds |-> 0]
    /\ ctx_frees = [c \in CtxIds |-> 0]
    /\ allocs = [r \in Resources |-> 0]
    /\ frees = [r \in Resources |-> 0]
    /\ i = 0
    /\ stream_count = -1
    /\ nb_out_streams = 0
    /\ out_time_base = EmptyMap
    /\ header_count = 0
    /\ trailer_count = 0
    /\ written = <<>>
    /\ packet = BlankPacket
    /\ frame = BlankFrame
    /\ cur = 0
    /\ decoder = [s \in StreamIds |-> <<>>]
    /\ encoder = [s \in StreamIds |-> <<>>]
    /\ result = 0
    /\ exit_code = 0
    /\ diag = <<>>
    /\ hist = InitHist

inputVars == <<streams>>
mapVars == <<out_stream_indices, in_codec_contexts, out_codec_contexts,
             ctx_allocs, ctx_frees, i, stream_count, nb_out_streams>>
outVars == <<out_time_base, header_count, trailer_count, written>>
bodyVars == <<nb_read, packet, frame, cur, decoder, encoder>>

Acquire(r) == allocs' = [allocs EXCEPT ![r] = @ + 1]
Release(r) == frees' = [frees EXCEPT ![r] = @ + 1]
Fatal == hist' = [hist EXCEPT !.fatal = @ + 1]

\* ------------------------------------------------------------------ main
\* avformat_alloc_context
Main_AllocInput ==
    /\ pc = "main_alloc_input"
    /\ \/ /\ Acquire("infc")
          /\ pc' = "main_open_input"
          /\ UNCHANGED <<exit_code, diag, hist>>
       \/ /\ diag' = print_error(diag, "Failed to allocate memory for input format context", 0, 0)
          /\ Fatal
          /\ exit_code' = -1
          /\ pc' = "done"
          /\ UNCHANGED allocs
    /\ UNCHANGED <<inputVars, mapVars, outVars, bodyVars, frees, result>>

\* avformat_open_input; on failure the library frees the caller's context
\* and nulls the pointer, so the avformat_free_context that follows is a no-op
Main_OpenInput ==
    /\ pc = "main_open_input"
    /\ \E reason \in {0} \cup FatalCodes :
        IF reason # 0
        THEN /\ diag' = print_error(diag, "Failed to open input file", reason, reason)
             /\ Fatal
             /\ Release("infc")
             /\ exit_code' = -1
             /\ pc' = "done"
        ELSE /\ pc' = "main_find_stream_info"
             /\ UNCHANGED <<diag, hist, frees, exit_code>>
    /\ UNCHANGED <<inputVars, mapVars, outVars, bodyVars, allocs, result>>

\* avformat_find_stream_info
Main_FindStreamInfo ==
    /\ pc = "main_find_stream_info"
    /\ \E reason \in {0} \cup FatalCodes :
        IF reason # 0
        THEN /\ diag' = print_error(diag, "Failed to query stream info", reason, reason)
             /\ Fatal
             /\ Release("infc")
             /\ exit_code' = -1
             /\ pc' = "done"
        ELSE /\ pc' = "main_alloc_output"
             /\ UNCHANGED <<diag, hist, frees, exit_code>>
    /\ UNCHANGED <<inputVars, mapVars, outVars, bodyVars, allocs, result>>

\* avformat_alloc_output_context2
Main_AllocOutput ==
    /\ pc = "main_alloc_output"
    /\ \E reason \in {0} \cup FatalCodes :
        IF reason # 0
        THEN /\ diag' = print_error(diag, "Failed to create output context", reason, reason)
             /\ Fatal
             /\ Release("infc")
             /\ exit_code' = -1
             /\ pc' = "done"
             /\ UNCHANGED allocs
        ELSE /\ Acquire("outfc")
             /\ pc' = "cst_find_encoder"
             /\ UNCHANGED <<diag, hist, frees, exit_code>>
    /\ UNCHANGED <<inputVars, mapVars, outVars, bodyVars, result>>

\* return from create_streams_and_transcode: free the output context, close
\* the input, exit with result
Main_Cleanup ==
    /\ pc = "main_cleanup"
    /\ frees' = [frees EXCEPT !["outfc"] = @ + 1, !["infc"] = @ + 1]
    /\ exit_code' = result
    /\ pc' = "done"
    /\ UNCHANGED <<inputVars, mapVars, outVars, bodyVars, allocs, result, diag, hist>>

\* ------------------------------------------ create_streams_and_transcode
\* avcodec_find_encoder_by_name("libx265")
CST_FindEncoder ==
    /\ pc = "cst_find_encoder"
    /\ \/ /\ pc' = "cst_alloc_indices"
          /\ UNCHANGED <<diag, hist, result>>
       \/ /\ diag' = print_error(diag, "Failed to find libx265 codec", 0, 0)
          /\ Fatal
          /\ result' = -1
          /\ pc' = "main_cleanup"
    /\ UNCHANGED <<inputVars, mapVars, outVars, bodyVars, allocs, frees, exit_code>>

\* av_malloc_array for the stream index map: entries start uninitialised
CST_AllocIndices ==
    /\ pc = "cst_alloc_indices"
    /\ \/ /\ Acquire("out_stream_indices")
          /\ pc' = "cst_alloc_in_contexts"
          /\ UNCHANGED <<diag, hist, result>>
       \/ /\ diag' = print_error(diag, "Failed to allocate memory for output stream indices", 0, 0)
          /\ Fatal
          /\ result' = -1
          /\ pc' = "main_cleanup"
          /\ UNCHANGED allocs
    /\ UNCHANGED <<inputVars, mapVars, outVars, bodyVars, frees, exit_code>>

\* av_calloc for the decode context table: every entry NULL
CST_AllocInContexts ==
    /\ pc = "cst_alloc_in_contexts"
    /\ \/ /\ Acquire("in_codec_contexts")
          /\ in_codec_contexts' = [j \in StreamIds |-> FALSE]
          /\ pc' = "cst_alloc_out_contexts"
          /\ UNCHANGED <<diag, hist, result, frees>>
       \/ /\ diag' = print_error(diag, "Failed to allocate memory for input codec contexts", 0, 0)
          /\ Fatal
          /\ Release("out_stream_indices")
          /\ result' = -1
          /\ pc' = "main_cleanup"
          /\ UNCHANGED <<allocs, in_codec_contexts>>
    /\ UNCHANGED <<inputVars, outVars, bodyVars, exit_code, out_stream_indices,
                   out_codec_contexts, ctx_allocs, ctx_frees, i, stream_count,
                   nb_out_streams>>

\* av_calloc for the encode context table: every entry NULL
CST_AllocOutContexts ==
    /\ pc = "cst_alloc_out_contexts"
    /\ \/ /\ Acquire("out_codec_contexts")
          /\ out_codec_contexts' = [j \in StreamIds |-> FALSE]
          /\ pc' = "create_streams"
          /\ UNCHANGED <<diag, hist, result, frees>>
       \/ /\ diag' = print_error(diag, "Failed to allocate memory for output codec contexts", 0, 0)
          /\ Fatal
          /\ frees' = [frees EXCEPT !["in_codec_contexts"] = @ + 1,
                                    !["out_stream_indices"] = @ + 1]
          /\ result' = -1
          /\ pc' = "main_cleanup"
          /\ UNCHANGED <<allocs, out_codec_contexts>>
    /\ UNCHANGED <<inputVars, outVars, bodyVars, exit_code, out_stream_indices,
                   in_codec_contexts, ctx_allocs, ctx_frees, i, stream_count,
                   nb_out_streams>>

\* ------------------------------------------------------- create_streams
\* how far one iteration of the loop gets: "ok", or the call that fails
VideoOutcomes == {"ok", "find_decoder", "dec_alloc", "dec_params", "dec_open",
                  "enc_alloc", "enc_open", "new_stream", "params"}
AudioOutcomes == {"ok", "new_stream", "params"}

\* create_decode_context: [ctx |-> a context is returned, alloc/free |-> what
\* it did to the context it allocated]
create_decode_context(o) ==
    [ctx   |-> o \notin {"dec_alloc", "dec_params", "dec_open"},
     alloc |-> IF o = "dec_alloc" THEN 0 ELSE 1,
     free  |-> IF o \in {"dec_params", "dec_open"} THEN 1 ELSE 0]

\* create_encode_context, likewise
create_encode_context(o) ==
    [ctx   |-> o \notin {"enc_alloc", "enc_open"},
     alloc |-> IF o = "enc_alloc" THEN 0 ELSE 1,
     free  |-> IF o = "enc_open" THEN 1 ELSE 0]

\* the one diagnostic a failing call of the iteration prints
CreateStreamsDiagnostic(o, reason) ==
    CASE o = "find_decoder" -> [description |-> "Failed to find decoder", errnum |-> 0, cause |-> 0]
      [] o = "dec_alloc" -> [description |-> "Failed to allocate memory for input in_stream codec context", errnum |-> 0, cause |-> 0]
      [] o = "dec_params" -> [description |-> "Failed to copy parameters to context", errnum |-> reason, cause |-> reason]
      [] o = "dec_open" -> [description |-> "Failed to open input codec context", errnum |-> reason, cause |-> reason]
      [] o = "enc_alloc" -> [description |-> "Failed to allocate memory for output in_stream codec context", errnum |-> 0, cause |-> 0]
      [] o = "enc_open" -> [description |-> "Failed to open output codec context", errnum |-> reason, cause |-> reason]
      [] o = "new_stream" -> [description |-> "Failed to create output in_stream", errnum |-> 0, cause |-> 0]
      [] o = "params" -> [description |-> "Failed to copy codec parameters to output in_stream", errnum |-> reason, cause |-> reason]

FailureFreesNothing(in_table, out_table, counts) == counts

\* the `failure:` label: avcodec_free_context on every entry of both tables
FailureFrees(in_table, out_table, counts) ==
    FreedBy(out_table, "out", FreedBy(in_table, "in", counts))

StoresNothing(table, idx, ctx) == table

\* `in_codec_contexts[i] = incc;` and `out_codec_contexts[i] = outcc;`,
\* reached only with a non-NULL context
StoreContext(table, idx, ctx) ==
    IF ctx THEN [table EXCEPT ![idx] = TRUE] ELSE table

DropsNothing(type) == FALSE

\* the test that drops a stream: neither audio nor video
IsDropped(type) == type # "audio" /\ type # "video"

\* one iteration of the loop over the input streams, with the `failure:`
\* label when a call of the iteration fails
CreateStreams_Iter ==
    /\ pc = "create_streams"
    /\ i < NbStreams
    /\ LET type == streams[i].codec_type IN
       \/ /\ IsDropped(type)
          /\ out_stream_indices' = (i :> DROPPED) @@ out_stream_indices
          /\ i' = i + 1
          /\ pc' = "create_streams"
          /\ UNCHANGED <<in_codec_contexts, out_codec_contexts, ctx_allocs,
                         ctx_frees, stream_count, nb_out_streams,
                         out_time_base, diag, hist, result>>
       \/ /\ ~IsDropped(type)
          /\ \E o \in (IF type = "video" THEN VideoOutcomes ELSE AudioOutcomes),
                reason \in FatalCodes :
             LET video == type = "video"
                 decoder_found == video /\ o # "find_decoder"
                 dec == create_decode_context(o)
                 dec_called == decoder_found
                 incc == dec_called /\ dec.ctx
                 enc == create_encode_context(o)
                 enc_called == incc
                 outcc == enc_called /\ enc.ctx
                 stream_called == IF video THEN outcc ELSE TRUE
                 out_stream == stream_called /\ o # "new_stream"
                 in_table == StoreContext(in_codec_contexts, i, incc)
                 out_table == StoreContext(out_codec_contexts, i, outcc)
                 a1 == [ctx_allocs EXCEPT
                          ![<<"in", i>>] = @ + (IF dec_called THEN dec.alloc ELSE 0),
                          ![<<"out", i>>] = @ + (IF enc_called THEN enc.alloc ELSE 0)]
                 f1 == [ctx_frees EXCEPT
                          ![<<"in", i>>] = @ + (IF dec_called THEN dec.free ELSE 0),
                          ![<<"out", i>>] = @ + (IF enc_called THEN enc.free ELSE 0)]
             IN /\ ctx_allocs' = a1
                /\ nb_out_streams' = IF out_stream THEN nb_out_streams + 1
                                     ELSE nb_out_streams
                /\ IF o = "ok"
                   THEN /\ in_codec_contexts' = in_table
                        /\ out_codec_contexts' = out_table
                        /\ ctx_frees' = f1
                        \* the encoder's time base is the inverse of the guessed
                        \* frame rate; a copied stream keeps avformat_new_stream's
                        /\ out_time_base' = (nb_out_streams :>
                               (IF video THEN streams[i].time_base ELSE <<1, 90000>>))
                               @@ out_time_base
                        /\ stream_count' = stream_count + 1
                        /\ out_stream_indices' =
                               (i :> PreIncrement(stream_count)) @@ out_stream_indices
                        /\ i' = i + 1
                        /\ pc' = "create_streams"
                        /\ UNCHANGED <<diag, hist, result>>
                   ELSE /\ diag' = Append(diag, CreateStreamsDiagnostic(o, reason))
                        /\ hist' = [hist EXCEPT !.fatal = @ + 1, !.cs_failed_at = i]
                        /\ ctx_frees' = FailureFrees(in_table, out_table, f1)
                        /\ in_codec_contexts' = NulledTable(in_table)
                        /\ out_codec_contexts' = NulledTable(out_table)
                        /\ result' = -1
                        /\ pc' = "cst_create_streams_failed"
                        /\ UNCHANGED <<out_time_base, stream_count,
                                       out_stream_indices, i>>
    /\ UNCHANGED <<inputVars, bodyVars, allocs, frees, exit_code,
                   header_count, trailer_count, written>>

\* the loop is over: create_streams returns 0 and the caller goes on
CreateStreams_Return ==
    /\ pc = "create_streams"
    /\ i >= NbStreams
    /\ pc' = "cst_avio_open"
    /\ hist' = [hist EXCEPT !.mapped = TRUE]
    /\ UNCHANGED <<inputVars, mapVars, outVars, bodyVars, allocs, frees,
                   result, exit_code, diag>>

\* create_streams returned -1: the caller frees the three tables
CST_CreateStreamsFailed ==
    /\ pc = "cst_create_streams_failed"
    /\ frees' = [frees EXCEPT !["out_codec_contexts"] = @ + 1,
                              !["in_codec_contexts"] = @ + 1,
                              !["out_stream_indices"] = @ + 1]
    /\ result' = -1
    /\ pc' = "main_cleanup"
    /\ UNCHANGED <<inputVars, mapVars, outVars, bodyVars, allocs, exit_code,
                   diag, hist>>

\* avio_open of the output file (create_streams_and_transcode)
CST_AvioOpen ==
    /\ pc = "cst_avio_open"
    /\ \E reason \in {0} \cup FatalCodes :
        IF reason # 0
        THEN /\ diag' = print_error(diag, "Failed to open output file", reason, reason)
             /\ Fatal
             /\ ctx_frees' = TeardownFrees(in_codec_contexts, out_codec_contexts, ctx_frees)
             /\ in_codec_contexts' = NulledTable(in_codec_contexts)
             /\ out_codec_contexts' = NulledTable(out_codec_contexts)
             /\ frees' = [frees EXCEPT !["out_codec_contexts"] = @ + 1,
                                       !["in_codec_contexts"] = @ + 1,
                                       !["out_stream_indices"] = @ + 1]
             /\ result' = -1
             /\ pc' = "main_cleanup"
             /\ UNCHANGED allocs
        ELSE /\ Acquire("pb")
             /\ pc' = "wo_write_header"
             /\ UNCHANGED <<diag, hist, ctx_frees, in_codec_contexts,
                            out_codec_contexts, frees, result>>
    /\ UNCHANGED <<inputVars, outVars, bodyVars, exit_code, out_stream_indices,
                   ctx_allocs, i, stream_count, nb_out_streams>>

\* write_output returned: close the sink, free every context and the tables
CST_Teardown ==
    /\ pc = "cst_teardown"
    /\ ctx_frees' = TeardownFrees(in_codec_contexts, out_codec_contexts, ctx_frees)
    /\ in_codec_contexts' = NulledTable(in_codec_contexts)
    /\ out_codec_contexts' = NulledTable(out_codec_contexts)
    /\ frees' = [frees EXCEPT !["pb"] = @ + 1,
                              !["out_codec_contexts"] = @ + 1,
                              !["in_codec_contexts"] = @ + 1,
                              !["out_stream_indices"] = @ + 1]
    /\ pc' = "main_cleanup"
    /\ UNCHANGED <<inputVars, outVars, bodyVars, allocs, result, exit_code,
                   diag, hist, out_stream_indices, ctx_allocs, i, stream_count,
                   nb_out_streams>>

\* ---------------------------------------------------------- write_output
\* avformat_write_header.  avformat_init_output is never called before it,
\* so its success status is AVSTREAM_INIT_IN_WRITE_HEADER.  The mp4 muxer
\* sets the time base of every output stream while it writes the header.
WO_WriteHeader ==
    /\ pc = "wo_write_header"
    /\ \E reason \in {AVSTREAM_INIT_IN_WRITE_HEADER} \cup FatalCodes :
        IF reason # AVSTREAM_INIT_IN_WRITE_HEADER
        THEN /\ diag' = print_error(diag, "Failed to write header to output file", reason, reason)
             /\ Fatal
             /\ result' = -1
             /\ pc' = "cst_teardown"
             /\ UNCHANGED <<header_count, out_time_base>>
        ELSE /\ header_count' = header_count + 1
             /\ \E tb \in TimeBases :
                    out_time_base' = [j \in DOMAIN out_time_base |-> tb]
             /\ pc' = "wb_alloc"
             /\ UNCHANGED <<diag, hist, result>>
    /\ UNCHANGED <<inputVars, mapVars, bodyVars, allocs, frees, exit_code,
                   trailer_count, written>>

\* av_write_trailer, reached when write_body returned 0
WO_WriteTrailer ==
    /\ pc = "wo_write_trailer"
    /\ \E reason \in {0} \cup FatalCodes :
        IF reason # 0
        THEN /\ diag' = print_error(diag, "Failed to write trailer", reason, reason)
             /\ Fatal
             /\ result' = -1
             /\ UNCHANGED trailer_count
        ELSE /\ trailer_count' = trailer_count + 1
             /\ result' = 0
             /\ UNCHANGED <<diag, hist>>
    /\ pc' = "cst_teardown"
    /\ UNCHANGED <<inputVars, mapVars, bodyVars, allocs, frees, exit_code,
                   header_count, out_time_base, written>>

\* ------------------------------------------------------------ write_body
\* av_packet_alloc and av_frame_alloc: either may return NULL, unchecked
WB_Alloc ==
    /\ pc = "wb_alloc"
    /\ \E packet_ok \in BOOLEAN, frame_ok \in BOOLEAN :
        /\ allocs' = [allocs EXCEPT
                        !["packet"] = @ + (IF packet_ok THEN 1 ELSE 0),
                        !["frame"] = @ + (IF frame_ok THEN 1 ELSE 0)]
        /\ hist' = [hist EXCEPT !.null_buffers = @ + (IF packet_ok THEN 0 ELSE 1)
                                                   + (IF frame_ok THEN 0 ELSE 1)]
    /\ result' = 0
    /\ pc' = "wb_read"
    /\ UNCHANGED <<inputVars, mapVars, outVars, bodyVars, frees, exit_code, diag>>

SameUnitAgain(n) == n

\* av_read_frame delivers the unit after the n units it has delivered
NextUnit(n) == n + 1

DispatchInverted(outcc) == IF outcc THEN "wb_copy" ELSE "tc_send_packet"

\* the dispatch of write_body: `if (outcc)` transcode, else write_packet
Dispatch(outcc) == IF outcc THEN "tc_send_packet" ELSE "wb_copy"

\* the loop condition av_read_frame(infc, packet) >= 0 and the dispatch of
\* the unit it delivered.  With a NULL packet the call dereferences NULL.
WB_Read ==
    /\ pc = "wb_read"
    /\ \/ /\ allocs["packet"] = 0
          /\ pc' = "crashed"          \* killed by SIGSEGV: nothing is unwound
          /\ exit_code' = 139
          /\ UNCHANGED <<nb_read, packet, cur, hist>>
       \/ /\ allocs["packet"] > 0
          /\ nb_read < MaxUnits
          /\ \E s \in StreamIds :
             LET unit == [held |-> TRUE, stream_index |-> s,
                          data |-> NextUnit(nb_read), pts |-> NextUnit(nb_read)]
             IN /\ nb_read' = NextUnit(nb_read)
                /\ IF out_stream_indices[unit.stream_index] = -1
                   THEN /\ packet' = av_packet_unref(unit)
                        /\ pc' = "wb_read"
                        /\ UNCHANGED cur
                   ELSE /\ packet' = unit
                        /\ cur' = unit.stream_index
                        /\ pc' = Dispatch(out_codec_contexts[unit.stream_index])
                /\ hist' = [hist EXCEPT
                      !.read_log = Append(@, unit),
                      !.read_after_enc_fail = @ \/ hist.enc_fail,
                      !.io_after_write_fail = @ \/ hist.write_fail # "none",
                      !.dec_status = 0,
                      !.pkt_filled = @ + 1,
                      !.pkt_released = @ + ReleasedBy(unit, packet')]
          /\ UNCHANGED exit_code
       \/ /\ allocs["packet"] > 0
          /\ \E reason \in {AVERROR_EOF} \cup FatalCodes :
                hist' = [hist EXCEPT !.read_error = @ \/ reason # AVERROR_EOF,
                                     !.dec_status = 0]
          /\ pc' = "wb_end"
          /\ UNCHANGED <<nb_read, packet, cur, exit_code>>
    /\ UNCHANGED <<inputVars, mapVars, outVars, allocs, frees, frame, decoder,
                   encoder, result, diag>>

\* the entry of `written` for a unit the container writer accepted
Accepted(unit, via) ==
    [unit |-> unit, via |-> via, in_stream |-> cur]

\* the copy branch of write_body: write_packet, then av_packet_unref.
\* av_interleaved_write_frame leaves the packet blank, also when it fails.
WB_Copy ==
    /\ pc = "wb_copy"
    /\ packet' = BlankPacket
    /\ \E reason \in {0} \cup FatalCodes :
        IF reason # 0
        THEN /\ diag' = print_error(diag, "Failed to write frame", reason, reason)
             /\ hist' = [hist EXCEPT !.fatal = @ + 1, !.write_fail = "copy",
                            !.write_before_header = @ \/ header_count = 0,
                            !.pkt_released = @ + ReleasedBy(packet, packet')]
             /\ result' = -1
             /\ pc' = "wb_end"
             /\ UNCHANGED written
        ELSE /\ written' = Append(written,
                    Accepted(write_packet(packet, streams[cur],
                                          out_time_base[out_stream_indices[cur]],
                                          out_stream_indices[cur]), "copy"))
             /\ hist' = [hist EXCEPT
                            !.io_after_write_fail = @ \/ hist.write_fail # "none",
                            !.write_before_header = @ \/ header_count = 0,
                            !.pkt_released = @ + ReleasedBy(packet, packet')]
             /\ pc' = "wb_read"
             /\ UNCHANGED <<diag, result>>
    /\ UNCHANGED <<inputVars, mapVars, allocs, frees, exit_code, nb_read, frame,
                   cur, decoder, encoder, out_time_base, header_count,
                   trailer_count>>

\* the `end:` label of write_body and the test of its result in write_output
WB_End ==
    /\ pc = "wb_end"
    /\ frees' = [frees EXCEPT !["frame"] = @ + allocs["frame"],
                              !["packet"] = @ + allocs["packet"]]
    /\ packet' = BlankPacket
    /\ frame' = BlankFrame
    /\ hist' = [hist EXCEPT
                   !.pkt_released = @ + ReleasedBy(packet, packet'),
                   !.frm_released = @ + ReleasedBy(frame, frame')]
    /\ pc' = IF result # 0 THEN "cst_teardown" ELSE "wo_write_trailer"
    /\ UNCHANGED <<inputVars, mapVars, outVars, allocs, result, exit_code, diag,
                   nb_read, cur, decoder, encoder>>

\* ------------------------------------------------------------- transcode
\* avcodec_send_packet, then av_packet_unref
TC_SendPacket ==
    /\ pc = "tc_send_packet"
    /\ \E reason \in {0} \cup FatalCodes :
        IF reason # 0
        THEN /\ diag' = print_error(diag, "Failed to send decode packet", reason, reason)
             /\ hist' = [hist EXCEPT !.fatal = @ + 1,
                    !.dec_status = reason,
                    !.sent_to_decoder = Append(@, packet),
                    !.ctx_use_after_free = @ \/ ctx_frees[<<"in", cur>>] > 0]
             /\ result' = -1
             /\ pc' = "wb_end"
             /\ UNCHANGED <<decoder, packet>>
        ELSE /\ decoder' = [decoder EXCEPT ![cur] =
                                Append(@, [data |-> packet.data, pts |-> packet.pts])]
             /\ hist' = [hist EXCEPT
                    !.dec_status = reason,
                    !.sent_to_decoder = Append(@, packet),
                    !.ctx_use_after_free = @ \/ ctx_frees[<<"in", cur>>] > 0,
                    !.pkt_released = @ + ReleasedBy(packet, av_packet_unref(packet))]
             /\ packet' = av_packet_unref(packet)
             /\ pc' = "tc_receive_frame"
             /\ UNCHANGED <<diag, result>>
    /\ UNCHANGED <<inputVars, mapVars, outVars, allocs, frees, exit_code,
                   nb_read, frame, cur, encoder>>

PullFatalButEof(status) == status # AVERROR_EOF

\* the test after a pull loop: the status that ended it is neither "end of
\* stream" nor "needs more input"
PullFatal(status) == status # AVERROR_EOF /\ status # AVERROR_EAGAIN

\* what transcode does with the value encode_frame_and_send returns: the
\* call is a statement, the value is dropped; av_frame_unref and the next
\* avcodec_receive_frame follow
TranscodeAfterEncode(reason) == "tc_receive_frame"

\* avcodec_receive_frame: the loop condition of transcode and its exit.
\* With a NULL frame the decoder writes through NULL.
TC_ReceiveFrame ==
    /\ pc = "tc_receive_frame"
    /\ \/ /\ allocs["frame"] = 0
          /\ pc' = "crashed"
          /\ exit_code' = 139
          /\ UNCHANGED <<frame, decoder, diag, hist, result>>
       \/ /\ allocs["frame"] > 0
          /\ decoder[cur] # <<>>
          /\ frame' = [held |-> TRUE, data |-> Head(decoder[cur]).data,
                       pts |-> Head(decoder[cur]).pts]
          /\ decoder' = [decoder EXCEPT ![cur] = Tail(@)]
          /\ pc' = "enc_send_frame"
          /\ hist' = [hist EXCEPT !.dec_status = 0, !.frm_filled = @ + 1]
          /\ UNCHANGED <<diag, result, exit_code>>
       \/ /\ allocs["frame"] > 0
          /\ \E frame_reason \in {AVERROR_EAGAIN, AVERROR_EOF} \cup FatalCodes :
              IF PullFatal(frame_reason)
              THEN \* `reason` still holds avcodec_send_packet's 0
                   /\ diag' = print_error(diag, "Failed to receive decode frames", 0, frame_reason)
                   /\ hist' = [hist EXCEPT !.fatal = @ + 1,
                                           !.dec_status = frame_reason]
                   /\ result' = -1
                   /\ pc' = "wb_end"
              ELSE /\ pc' = "wb_read"
                   /\ hist' = [hist EXCEPT !.dec_status = frame_reason]
                   /\ UNCHANGED <<diag, result>>
          /\ UNCHANGED <<frame, decoder, exit_code>>
    /\ UNCHANGED <<inputVars, mapVars, outVars, allocs, frees, nb_read, packet,
                   cur, encoder>>

\* ------------------------------------------------- encode_frame_and_send
\* avcodec_send_frame
ENC_SendFrame ==
    /\ pc = "enc_send_frame"
    /\ \E reason \in {0} \cup FatalCodes :
        IF reason # 0
        THEN /\ diag' = print_error(diag, "Failed to send encode frame", reason, reason)
             /\ frame' = av_frame_unref(frame)
             /\ hist' = [hist EXCEPT !.fatal = @ + 1, !.enc_fail = TRUE,
                            !.frm_released = @ + ReleasedBy(frame, frame')]
             /\ pc' = TranscodeAfterEncode(-1)
             /\ UNCHANGED encoder
        ELSE /\ encoder' = [encoder EXCEPT ![cur] =
                                Append(@, [data |-> frame.data, pts |-> frame.pts])]
             /\ pc' = "enc_receive_packet"
             /\ UNCHANGED <<diag, hist, frame>>
    /\ UNCHANGED <<inputVars, mapVars, outVars, allocs, frees, exit_code,
                   nb_read, packet, cur, decoder, result>>

\* avcodec_receive_packet: the loop condition of encode_frame_and_send and
\* its exit
ENC_ReceivePacket ==
    /\ pc = "enc_receive_packet"
    /\ \/ /\ encoder[cur] # <<>>
          /\ packet' = [held |-> TRUE, stream_index |-> 0,
                        data |-> Head(encoder[cur]).data,
                        pts |-> Head(encoder[cur]).pts]
          /\ encoder' = [encoder EXCEPT ![cur] = Tail(@)]
          /\ pc' = "enc_write"
          /\ hist' = [hist EXCEPT !.pkt_filled = @ + 1]
          /\ UNCHANGED <<diag, frame>>
       \/ /\ frame' = av_frame_unref(frame)
          /\ \E packet_reason \in {AVERROR_EAGAIN, AVERROR_EOF} \cup FatalCodes :
              IF PullFatal(packet_reason)
              THEN \* `reason` holds the 0 of avcodec_send_frame or write_packet
                   /\ diag' = print_error(diag, "Failed to receive encode packets", 0, packet_reason)
                   /\ hist' = [hist EXCEPT !.fatal = @ + 1, !.enc_fail = TRUE,
                                  !.frm_released = @ + ReleasedBy(frame, frame')]
                   /\ pc' = TranscodeAfterEncode(-1)
              ELSE /\ pc' = TranscodeAfterEncode(0)
                   /\ hist' = [hist EXCEPT
                                  !.frm_released = @ + ReleasedBy(frame, frame')]
                   /\ UNCHANGED diag
          /\ UNCHANGED <<packet, encoder>>
    /\ UNCHANGED <<inputVars, mapVars, outVars, allocs, frees, exit_code,
                   nb_read, cur, decoder, result>>

\* the body of the loop of encode_frame_and_send: write_packet, then
\* av_packet_unref
ENC_Write ==
    /\ pc = "enc_write"
    /\ packet' = BlankPacket
    /\ \E reason \in {0} \cup FatalCodes :
        IF reason # 0
        THEN /\ diag' = print_error(diag, "Failed to write frame", reason, reason)
             /\ frame' = av_frame_unref(frame)
             /\ hist' = [hist EXCEPT !.fatal = @ + 1, !.write_fail = "encode",
                            !.write_before_header = @ \/ header_count = 0,
                            !.pkt_released = @ + ReleasedBy(packet, packet'),
                            !.frm_released = @ + ReleasedBy(frame, frame')]
             /\ pc' = TranscodeAfterEncode(-1)
             /\ UNCHANGED written
        ELSE /\ written' = Append(written,
                    Accepted(write_packet(packet, streams[cur],
                                          out_time_base[out_stream_indices[cur]],
                                          out_stream_indices[cur]), "encode"))
             /\ hist' = [hist EXCEPT
                            !.io_after_write_fail = @ \/ hist.write_fail # "none",
                            !.write_before_header = @ \/ header_count = 0,
                            !.pkt_released = @ + ReleasedBy(packet, packet')]
             /\ pc' = "enc_receive_packet"
             /\ UNCHANGED <<diag, frame>>
    /\ UNCHANGED <<inputVars, mapVars, allocs, frees, exit_code, nb_read, cur,
                   decoder, encoder, result, out_time_base, header_count,
                   trailer_count>>

Next ==
    \/ Main_AllocInput
    \/ Main_OpenInput
    \/ Main_FindStreamInfo
    \/ Main_AllocOutput
    \/ Main_Cleanup
    \/ CST_FindEncoder
    \/ CST_AllocIndices
    \/ CST_AllocInContexts
    \/ CST_AllocOutContexts
    \/ CreateStreams_Iter
    \/ CreateStreams_Return
    \/ CST_CreateStreamsFailed
    \/ CST_AvioOpen
    \/ CST_Teardown
    \/ WO_WriteHeader
    \/ WO_WriteTrailer
    \/ WB_Alloc
    \/ WB_Read
    \/ WB_Copy
    \/ WB_End
    \/ TC_SendPacket
    \/ TC_ReceiveFrame
    \/ ENC_SendFrame
    \/ ENC_ReceivePacket
    \/ ENC_Write

Spec == Init /\ [][Next]_vars

\* the program is one thread that runs whenever it has a step to take:
\* every library call returns and the next statement is executed
FairSpec == Spec /\ WF_vars(Next)

\* ------------------------------------------------------------ properties
\* create_streams has returned 0 and the tables are not yet torn down
MappingInForce ==
    pc \in {"cst_avio_open", "wo_write_header", "wo_write_trailer", "wb_alloc",
            "wb_read", "wb_copy", "wb_end", "tc_send_packet", "tc_receive_frame",
            "enc_send_frame", "enc_receive_packet", "enc_write", "cst_teardown"}

Kept == {j \in StreamIds : streams[j].codec_type \in {"audio", "video"}}
Videos == {j \in StreamIds : streams[j].codec_type = "video"}
Audios == {j \in StreamIds : streams[j].codec_type = "audio"}
Finished == pc \in {"done", "crashed"}

\* C1: once create_streams has succeeded, every audio or video stream maps
\* to the number of audio/video streams before it, so the mapped values
\* are exactly 0..k-1 in ascending input order, every other stream maps to
\* DROPPED, and the output container holds exactly k streams.
C1_MappingDense ==
    MappingInForce =>
        LET k == Cardinality(Kept) IN
        /\ DOMAIN out_stream_indices = StreamIds
        /\ \A j \in StreamIds \ Kept : out_stream_indices[j] = DROPPED
        /\ \A j \in Kept :
              out_stream_indices[j] = Cardinality({m \in Kept : m < j})
        /\ {out_stream_indices[j] : j \in Kept} = 0..(k - 1)
        /\ \A j, m \in Kept : j # m => out_stream_indices[j] # out_stream_indices[m]
        /\ nb_out_streams = k

\* a dropped stream sits before a kept one, and mapping has succeeded
C1_Witness ==
    /\ pc = "cst_avio_open"
    /\ \E j, m \in StreamIds :
          /\ j < m
          /\ j \notin Kept
          /\ m \in Kept
          /\ out_stream_indices[m] = 0


\* the units the demuxer delivered on input stream j, in delivery order
ReadOn(j) == SelectSeq(hist.read_log, LAMBDA u : u.stream_index = j)
\* the units the writer accepted for input stream j, in write order
WrittenOn(j) == SelectSeq(written, LAMBDA w : w.in_stream = j)
Succeeded == pc = "done" /\ exit_code = 0

\* C2: the header is written at most once and before any unit reaches the
\* container writer; the trailer is written at most once, and only when the
\* header was written and the body read and processed every input unit
\* (no read error, no encoder or writer failure); it is never written when
\* the body failed.
C2_HeaderTrailerDiscipline ==
    /\ header_count <= 1
    /\ trailer_count <= 1
    /\ ~hist.write_before_header
    /\ written # <<>> => header_count = 1
    /\ trailer_count = 1 =>
          /\ header_count = 1
          /\ ~hist.read_error
          /\ ~hist.enc_fail
          /\ hist.write_fail = "none"

\* C3: once the encoder has rejected a frame or failed a pull, no further
\* input unit is read, the trailer is not written and the run ends nonzero.
C3_EncoderFailureFatal ==
    hist.enc_fail =>
        /\ ~hist.read_after_enc_fail
        /\ trailer_count = 0
        /\ (Finished => exit_code # 0)

\* C4: once the container writer has rejected a unit, on the copy path or
\* on the encoder path, no further unit is read or written, the trailer is
\* not written and the run ends nonzero.
C4_WriteFailureFatal ==
    hist.write_fail # "none" =>
        /\ ~hist.io_after_write_fail
        /\ trailer_count = 0
        /\ (Finished => exit_code # 0)

\* C5: at the end of a run, a fatal condition that occurred (a call the
\* code checks returned a failure) has produced exactly one diagnostic and a
\* nonzero outcome, and outcome 0 means that no fatal condition occurred.
C5_OneDiagnosticPerFatal ==
    Finished =>
        /\ hist.fatal > 0 => (Len(diag) = 1 /\ exit_code # 0)
        /\ exit_code = 0 => hist.fatal = 0

\* C6: a demuxer read error is not taken for the end of input: after it the
\* trailer is not written and the run ends nonzero.
C6_ReadErrorNotSwallowed ==
    hist.read_error =>
        /\ trailer_count = 0
        /\ (Finished => exit_code # 0)

\* C7: when a run has succeeded, no unit is left inside a decoder and no
\* frame inside an encoder, and every unit read on a video stream has
\* surfaced as a written unit.
C7_DrainComplete ==
    Succeeded =>
        \A j \in Videos :
            /\ decoder[j] = <<>>
            /\ encoder[j] = <<>>
            /\ Len(WrittenOn(j)) = Len(ReadOn(j))

\* C8: when create_streams fails at stream i, then from the moment the
\* error is propagated every context created so far has been released
\* exactly once (none for a stream after i), the tables hold no pointer to
\* a released context, no context is used after release, and neither the
\* output sink is opened nor the header written.
C8_NoLeakOnMappingFailure ==
    hist.cs_failed_at >= 0 =>
        /\ \A c \in CtxIds :
              /\ ctx_allocs[c] <= 1
              /\ ctx_frees[c] = ctx_allocs[c]
              /\ c[2] > hist.cs_failed_at => ctx_allocs[c] = 0
        /\ \A j \in StreamIds : ~in_codec_contexts[j] /\ ~out_codec_contexts[j]
        /\ ~hist.ctx_use_after_free
        /\ allocs["pb"] = 0
        /\ header_count = 0
        /\ ~hist.mapped

\* mapping failed at the second stream, after both contexts of the first
\* stream and the decode context of the second were created; run is over
C8_Witness ==
    /\ pc = "done"
    /\ hist.cs_failed_at = 1
    /\ ctx_allocs[<<"in", 0>>] = 1
    /\ ctx_allocs[<<"out", 0>>] = 1
    /\ ctx_allocs[<<"in", 1>>] = 1
    /\ ctx_frees[<<"in", 1>>] = 1

\* C9: when a run in which mapping succeeded is over, every codec context,
\* the three tables, the packet and frame buffers, the output sink and both
\* container handles have been released exactly as often as they were
\* acquired, and none was acquired twice.
C9_ReleasedExactlyOnce ==
    (Finished /\ hist.mapped) =>
        /\ \A c \in CtxIds : ctx_allocs[c] <= 1 /\ ctx_frees[c] = ctx_allocs[c]
        /\ \A r \in Resources : allocs[r] <= 1 /\ frees[r] = allocs[r]
        /\ \A r \in Resources \ {"pb", "packet", "frame"} : allocs[r] = 1

\* C10: when a run has succeeded, the units written for an audio stream are
\* the units read on it, one for one and in the same order, each with its
\* payload, the mapped output index and its timestamp rebased from the
\* input to the output time base; all were written by the copy forwarder.
C10_PassThroughFidelity ==
    Succeeded =>
        \A j \in Audios :
            LET r == ReadOn(j)
                w == WrittenOn(j)
            IN /\ Len(w) = Len(r)
               /\ \A n \in 1..Len(w) :
                     /\ w[n].via = "copy"
                     /\ w[n].unit.data = r[n].data
                     /\ w[n].unit.stream_index = Cardinality({m \in Kept : m < j})
                     /\ w[n].unit.pts =
                           av_rescale_q(r[n].pts, InTimeBase(j),
                                        out_time_base[out_stream_indices[j]])

\* a successful run copied two units of one audio stream, and the rebase
\* changed a timestamp
C10_Witness ==
    /\ Succeeded
    /\ \E j \in Audios :
          /\ Len(ReadOn(j)) = 2
          /\ \E n \in 1..Len(WrittenOn(j)) :
                WrittenOn(j)[n].unit.pts # ReadOn(j)[n].pts

\* the payloads of the units handed to avcodec_send_packet
SentData == {hist.sent_to_decoder[n].data : n \in 1..Len(hist.sent_to_decoder)}
\* the payloads of the units the writer accepted by way of `via`
WrittenData(via) == {written[n].unit.data : n \in {m \in 1..Len(written) : written[m].via = via}}

\* C11: every unit read is dispatched by the kind of its stream.  A unit of
\* a video stream is handed to the decoder and never written by the copy
\* branch; a unit of an audio stream goes to the copy branch and is never
\* handed to a decoder or written by the encoder path; a unit of a dropped
\* stream is released at once and reaches neither the writer nor a codec.
C11_DispatchByKind ==
    /\ \A n \in 1..Len(hist.read_log) :
          LET u == hist.read_log[n]
              waiting(at) == pc = at /\ packet.held /\ packet.data = u.data
          IN  /\ u.stream_index \in Videos =>
                    /\ u.data \in SentData \/ waiting("tc_send_packet")
                    /\ u.data \notin WrittenData("copy")
                    /\ ~waiting("wb_copy")
              /\ u.stream_index \in Audios =>
                    /\ \/ u.data \in WrittenData("copy")
                       \/ waiting("wb_copy")
                       \/ hist.write_fail = "copy"
                    /\ u.data \notin SentData
                    /\ u.data \notin WrittenData("encode")
                    /\ ~waiting("tc_send_packet")
              /\ u.stream_index \notin Kept =>
                    /\ u.data \notin SentData
                    /\ u.data \notin WrittenData("copy") \cup WrittenData("encode")
                    /\ ~(packet.held /\ packet.data = u.data)
    /\ \A n \in 1..Len(hist.sent_to_decoder) :
          hist.sent_to_decoder[n].stream_index \in Videos
    /\ \A n \in 1..Len(written) :
          /\ written[n].via = "encode" => written[n].in_stream \in Videos
          /\ written[n].via = "copy" => written[n].in_stream \in Audios

\* a finished run read one video unit and one audio unit and wrote both,
\* the first through the codecs and the second by the copy branch
C11_Witness ==
    /\ pc = "done"
    /\ \E n, m \in 1..Len(hist.read_log) :
          /\ hist.read_log[n].stream_index \in Videos
          /\ hist.read_log[n].data \in WrittenData("encode")
          /\ hist.read_log[m].stream_index \in Audios
          /\ hist.read_log[m].data \in WrittenData("copy")

C13_TablesPaired ==
    MappingInForce =>
        /\ DOMAIN in_codec_contexts = StreamIds
        /\ DOMAIN out_codec_contexts = StreamIds
        /\ \A j \in StreamIds :
              /\ in_codec_contexts[j] = (j \in Videos)
              /\ out_codec_contexts[j] = (j \in Videos)
              /\ in_codec_contexts[j] = out_codec_contexts[j]
              /\ ctx_allocs[<<"in", j>>] - ctx_frees[<<"in", j>>]
                    = (IF j \in Videos THEN 1 ELSE 0)
              /\ ctx_allocs[<<"out", j>>] - ctx_frees[<<"out", j>>]
                    = (IF j \in Videos THEN 1 ELSE 0)

\* the body is running over a video stream and a stream that is not video
C13_Witness ==
    /\ pc = "wb_read"
    /\ nb_read = 1
    /\ \E j, m \in StreamIds :
          /\ j \in Videos
          /\ m \notin Videos
          /\ in_codec_contexts[j]
          /\ out_codec_contexts[j]
          /\ ~in_codec_contexts[m]
          /\ ~out_codec_contexts[m]

\* the decoder's last status is one that makes transcode fail
DecoderFailed == hist.dec_status \notin {0, AVERROR_EAGAIN, AVERROR_EOF}

\* C14: decoder-side status handling, step by step.  When the decoder
\* rejects the unit sent to it, transcode fails at once: no frame is pulled
\* and the unit is not sent again.  When a pull answers "needs more input"
\* or "end of stream", transcode returns success, nothing is printed and
\* the body goes on with the next read.  When a pull answers any other
\* failing status, transcode fails.  After a decoder failure the run is
\* aborted: no unit is read, decoded or written, no trailer is written and
\* the outcome is nonzero.
C14_DecoderStatuses ==
    [][/\ (pc = "tc_send_packet" /\ hist'.dec_status # 0) =>
              /\ pc' = "wb_end"
              /\ result' = -1
              /\ Len(diag') = Len(diag) + 1
              /\ UNCHANGED <<decoder, frame>>
       /\ (pc = "tc_receive_frame" /\ pc' # "crashed"
             /\ hist'.dec_status \in {AVERROR_EAGAIN, AVERROR_EOF}) =>
              /\ pc' = "wb_read"
              /\ hist'.fatal = hist.fatal
              /\ UNCHANGED <<result, diag, decoder, frame>>
       /\ (pc = "tc_receive_frame" /\ pc' # "crashed"
             /\ hist'.dec_status \notin {0, AVERROR_EAGAIN, AVERROR_EOF}) =>
              /\ pc' = "wb_end"
              /\ result' = -1
              /\ Len(diag') = Len(diag) + 1
       /\ DecoderFailed =>
              /\ pc \in {"wb_end", "cst_teardown", "main_cleanup", "done"}
              /\ result = -1
              /\ hist'.read_log = hist.read_log
              /\ hist'.sent_to_decoder = hist.sent_to_decoder
              /\ UNCHANGED <<written, trailer_count, decoder, encoder>>
              /\ pc' = "done" => exit_code' # 0
      ]_vars

\* a first transcode ended on "needs more input" and the body went on; the
\* decoder then failed the pull of the second unit and the run ended nonzero
C14_Witness ==
    /\ pc = "done"
    /\ exit_code # 0
    /\ DecoderFailed
    /\ Len(hist.sent_to_decoder) = 2
    /\ decoder[hist.sent_to_decoder[2].stream_index] # <<>>
    /\ diag[Len(diag)].description = "Failed to receive decode frames"

\* C15: the shared packet and the shared frame hold at most one unreleased
\* unit at a time.  The input unit is released once the decoder has taken
\* it, before any frame is pulled; a unit handed to the writer is released
\* before the next one is produced; the frame is released before the next
\* one is pulled.  So the packet is empty whenever av_read_frame or
\* avcodec_receive_packet fills it, the frame is empty whenever
\* avcodec_receive_frame fills it, nothing is released that is not held,
\* and when the run ends normally everything filled in has been released.
C15_BufferDiscipline ==
    /\ pc \in {"wb_read", "tc_receive_frame", "enc_send_frame",
               "enc_receive_packet"} => ~packet.held
    /\ pc \in {"wb_read", "tc_receive_frame", "wb_copy", "tc_send_packet"}
          => ~frame.held
    /\ pc \in {"wb_copy", "tc_send_packet", "enc_write"} => packet.held
    /\ pc \in {"enc_send_frame", "enc_receive_packet", "enc_write"} => frame.held
    /\ hist.pkt_filled - hist.pkt_released = (IF packet.held THEN 1 ELSE 0)
    /\ hist.frm_filled - hist.frm_released = (IF frame.held THEN 1 ELSE 0)
    /\ pc \in {"wo_write_trailer", "cst_teardown", "main_cleanup", "done"} =>
          /\ ~packet.held
          /\ ~frame.held

\* a frame was decoded and encoded, its unit written, and the body is
\* about to read the second input unit
C15_Witness ==
    /\ pc = "wb_read"
    /\ nb_read = 1
    /\ hist.pkt_filled = 2
    /\ hist.pkt_released = 2
    /\ hist.frm_released = 1
    /\ Len(written) = 1

\* the pipeline stage a program position belongs to: 1 open input, 2 probe,
\* 3 allocate the output container, 4 map the streams, 5 open the sink,
\* 6 header, 7 body, 8 trailer, 9 close the sink and free the contexts,
\* 10 release the tables and the containers, 11 the run is over
Stage(at) ==
    CASE at \in {"main_alloc_input", "main_open_input"} -> 1
      [] at = "main_find_stream_info" -> 2
      [] at = "main_alloc_output" -> 3
      [] at \in {"cst_find_encoder", "cst_alloc_indices", "cst_alloc_in_contexts",
                 "cst_alloc_out_contexts", "create_streams"} -> 4
      [] at = "cst_avio_open" -> 5
      [] at = "wo_write_header" -> 6
      [] at \in {"wb_alloc", "wb_read", "wb_copy", "wb_end", "tc_send_packet",
                 "tc_receive_frame", "enc_send_frame", "enc_receive_packet",
                 "enc_write"} -> 7
      [] at = "wo_write_trailer" -> 8
      [] at = "cst_teardown" -> 9
      [] at \in {"cst_create_streams_failed", "main_cleanup"} -> 10
      [] at \in {"done", "crashed"} -> 11

\* stages are never revisited, and after teardown has begun no unit is
\* decoded, encoded or written
C16_StagesInOrder ==
    /\ Stage(pc') >= Stage(pc)
    /\ Stage(pc) >= 9 =>
          /\ UNCHANGED <<written, decoder, encoder, header_count, trailer_count>>
          /\ hist'.sent_to_decoder = hist.sent_to_decoder
          /\ hist'.read_log = hist.read_log
    /\ ~hist.ctx_use_after_free

\* a stage that does work (the trailer is the last of them) is entered only
\* when every earlier stage has succeeded
C16_StartedOnlyAfterSuccess ==
    (Stage(pc') > Stage(pc) /\ Stage(pc') <= Stage("wo_write_trailer")) =>
        /\ hist'.fatal = 0
        /\ ~hist'.read_error
        /\ result' = 0

\* C16: the stages happen only in the order open input, probe, allocate
\* output, map streams, open sink, header, body, trailer, close sink, tear
\* down; a stage is started only if every earlier stage succeeded; once
\* teardown has begun no unit is decoded, encoded or written.
C16_PipelineOrder ==
    [][C16_StagesInOrder /\ C16_StartedOnlyAfterSuccess]_vars

\* C17: the diagnostic printed when a pull loop ends on a fatal status
\* decodes that status: the number handed to print_error is the status of
\* the avcodec_receive_frame or avcodec_receive_packet call that failed.
C17_DiagnosticNamesCause ==
    \A n \in 1..Len(diag) :
        diag[n].description \in {"Failed to receive decode frames",
                                 "Failed to receive encode packets"}
            => diag[n].errnum = diag[n].cause

\* everything the run acquired has been released and the tables are empty
TeardownComplete ==
    /\ \A r \in Resources : frees[r] = allocs[r]
    /\ \A c \in CtxIds : ctx_frees[c] = ctx_allocs[c]
    /\ \A j \in DOMAIN in_codec_contexts : ~in_codec_contexts[j]
    /\ \A j \in DOMAIN out_codec_contexts : ~out_codec_contexts[j]
    /\ ~packet.held
    /\ ~frame.held

\* no unit was delivered twice by the demuxer or handed twice to a decoder
EachUnitOnce ==
    /\ \A n, m \in 1..Len(hist.read_log) :
          hist.read_log[n].data = hist.read_log[m].data => n = m
    /\ \A n, m \in 1..Len(hist.sent_to_decoder) :
          hist.sent_to_decoder[n].data = hist.sent_to_decoder[m].data => n = m
    /\ Len(hist.read_log) = nb_read

\* C18: when every library call returns (a call that is handed a NULL
\* buffer does not: the process is killed inside it), the run ends: it
\* reaches the end of main, with success or failure, and by then teardown
\* is complete.  On the way the body reads each unit once and hands no
\* unit to a decoder twice.
C18_Terminates ==
    /\ <>(pc = "crashed" \/ (pc = "done" /\ TeardownComplete))
    /\ [](EachUnitOnce)

\* a run that read two units and transcoded both has ended
C18_Witness ==
    /\ pc = "done"
    /\ TeardownComplete
    /\ nb_read = 2
    /\ Len(hist.sent_to_decoder) = 2
    /\ Len(written) = 2

====
